---------------------------- MODULE Spec2Model ----------------------------
(***************************************************************************)
(* TDS Virtual TA (src/src/api/main.py): the FastAPI application that      *)
(* loads a corpus of course sections at startup and answers /ask requests  *)
(* by keyword ranking, with an optional AI enhancement of the best match.  *)
(*                                                                         *)
(* Text is a sequence of one-character strings.  A formatted text (an      *)
(* f-string) is the sequence of its literal pieces and interpolated        *)
(* characters.  A confidence is an integer number of hundredths            *)
(* (0.9 is 90, 0.1 is 10, score / 10 is 10 * score).                       *)
(* The timestamp of a response is left out: no handler reads it.           *)
(* The handlers are coroutines of one event loop and never await anything  *)
(* that suspends them, so a handler runs from its start to its return      *)
(* without another handler running; the call into AIResponder is inside    *)
(* that run.                                                               *)
(***************************************************************************)
EXTENDS Integers, Sequences, FiniteSets, TLC

\* ------------------------------------------------------------------ bounds

\* Number of /ask requests the clients submit.
NumReq == 2

\* Corpora of the ranking specification hold at most MaxSections sections.
MaxSections == 2

\* Long contents place their keyword at offsets 100 * k + d, k in 0..MaxBlock.
MaxBlock == 2

\* ------------------------------------------------------- program constants

\* content[i:i+500]
WINDOW == 500

\* range(0, len(content), 100)
STRIDE == 100

\* len(word) > 2
SHORT_WORD == 2

\* min(0.9, ...), in hundredths
CONF_CAP == 90

\* "confidence": 0.1, in hundredths
CONF_NOMATCH == 10

PLACEHOLDER_TOKEN == "your_aipipe_token_here"

\* hasattr(settings, 'AIPIPE_TOKEN') is false
NoAttr == "<no attribute>"

NOMATCH_ANSWER ==
  <<"I couldn't find specific information about your question in the TDS course materials. Could you please rephrase your question or ask about Docker, Git, or general TDS course topics?">>

\* -------------------------------------------------------------------- text

Min(a, b) == IF a <= b THEN a ELSE b

MinOf(S) == CHOOSE x \in S : \A y \in S : x <= y

UpperToLower ==
  [c \in {"A", "B", "G", "I", "N", "R", "T", "U"} |->
     CASE c = "A" -> "a" [] c = "B" -> "b" [] c = "G" -> "g" [] c = "I" -> "i"
       [] c = "N" -> "n" [] c = "R" -> "r" [] c = "T" -> "t" [] c = "U" -> "u"]

\* str.lower(), character by character
LowerChar(c) == IF c \in DOMAIN UpperToLower THEN UpperToLower[c] ELSE c

Lower(s) == SubSeq([i \in 1..Len(s) |-> LowerChar(s[i])], 1, Len(s))

IsSpace(c) == c \in {" ", "\n", "\t"}

\* s[a:b] of Python, 0-based, clipped to the text
Slice(s, a, b) == SubSeq(s, Min(a, Len(s)) + 1, Min(b, Len(s)))

\* w occurs in hay at 1-based position i
MatchAt(hay, w, i) ==
  /\ i >= 1
  /\ i + Len(w) - 1 <= Len(hay)
  /\ \A j \in 1..Len(w) : hay[i + j - 1] = w[j]

\* w in hay
Contains(hay, w) == \E i \in 1..(Len(hay) - Len(w) + 1) : MatchAt(hay, w, i)

RECURSIVE CountFrom(_, _, _)
CountFrom(M, n, p) ==
  LET later == {m \in M : m >= p}
  IN  IF later = {} THEN 0 ELSE 1 + CountFrom(M, n, MinOf(later) + n)

\* hay.count(w) for a non-empty w: occurrences found left to right, the
\* search resuming after each occurrence found
Count(hay, w) ==
  LET M == {i \in 1..(Len(hay) - Len(w) + 1) : MatchAt(hay, w, i)}
  IN  CountFrom(M, Len(w), 1)

RECURSIVE WordsFrom(_, _)
WordsFrom(s, p) ==
  LET starts == {i \in p..Len(s) : ~IsSpace(s[i])}
  IN  IF starts = {} THEN <<>>
      ELSE LET a == MinOf(starts)
               stops == {i \in a..Len(s) : IsSpace(s[i])}
               b == IF stops = {} THEN Len(s) + 1 ELSE MinOf(stops)
           IN  <<SubSeq(s, a, b - 1)>> \o WordsFrom(s, b)

\* s.split(): the maximal runs of non-whitespace, in order
Split(s) == WordsFrom(s, 1)

\* s.strip()
Strip(s) ==
  LET keep == {i \in 1..Len(s) : ~IsSpace(s[i])}
  IN  IF keep = {} THEN <<>>
      ELSE SubSeq(s, MinOf(keep), CHOOSE x \in keep : \A y \in keep : y <= x)

\* the question words the scorer and the extractor use
LongWords(question) ==
  LET ws == Split(Lower(question))
  IN  SelectSeq(ws, LAMBDA w : Len(w) > SHORT_WORD)

\* ------------------------------------------- search_knowledge_base: ranking

RECURSIVE SumCounts(_, _, _)
SumCounts(content, words, k) ==
  IF k > Len(words) THEN 0
  ELSE Count(content, words[k]) + SumCounts(content, words, k + 1)

\* score of one section: for word in question_words: if len(word) > 2:
\* score += content.count(word), on the lowercased content
Score(question, content) == SumCounts(Lower(content), LongWords(question), 1)

\* variant: sections of score 0 are kept too
KeepSection_AnyScore(score) == score >= 0

\* if score > 0: relevant_sections.append(...)
KeepSection(score) == score > 0

RECURSIVE Collect(_, _, _)
Collect(kb, question, k) ==
  IF k > Len(kb) THEN <<>>
  ELSE LET score == Score(question, kb[k].content)
           rest == Collect(kb, question, k + 1)
       IN  IF KeepSection(score)
             THEN <<[section |-> kb[k].name, score |-> score,
                     content |-> kb[k].content]>> \o rest
             ELSE rest

\* variant: an ascending sort reversed, which turns ties around
StaysAhead_Strict(a, b) == a.score > b.score

\* list.sort(key=score, reverse=True) leaves a ahead of a later b
StaysAhead(a, b) == a.score >= b.score

InsertSorted(sorted, c) ==
  LET ahead == {i \in 1..Len(sorted) : StaysAhead(sorted[i], c)}
      n == IF ahead = {} THEN 0 ELSE CHOOSE x \in ahead : \A y \in ahead : y <= x
  IN  SubSeq(sorted, 1, n) \o <<c>> \o SubSeq(sorted, n + 1, Len(sorted))

RECURSIVE SortFrom(_, _, _)
SortFrom(sorted, list, k) ==
  IF k > Len(list) THEN sorted
  ELSE SortFrom(InsertSorted(sorted, list[k]), list, k + 1)

\* relevant_sections after the sort
relevant_sections(kb, question) == SortFrom(<<>>, Collect(kb, question, 1), 1)

\* sources = [f"{best_match['section']} section"]
SourcesOf(section) == << <<section, " section">> >>

\* ---------------------------------- search_knowledge_base: fallback answer

\* variant: the scan steps by whole windows
RECURSIVE ScanFrom_WindowStep(_, _, _)
ScanFrom_WindowStep(content, words, i) ==
  IF i >= Len(content) THEN <<>>
  ELSE LET chunk == Slice(content, i, i + WINDOW)
       IN  IF \E k \in 1..Len(words) : Contains(Lower(chunk), words[k])
             THEN chunk
             ELSE ScanFrom_WindowStep(content, words, i + WINDOW)

\* variant: the window is one character short
RECURSIVE ScanFrom_ShortWindow(_, _, _)
ScanFrom_ShortWindow(content, words, i) ==
  IF i >= Len(content) THEN <<>>
  ELSE LET chunk == Slice(content, i, i + WINDOW - 1)
       IN  IF \E k \in 1..Len(words) : Contains(Lower(chunk), words[k])
             THEN chunk
             ELSE ScanFrom_ShortWindow(content, words, i + STRIDE)

RECURSIVE ScanFrom(_, _, _)
ScanFrom(content, words, i) ==
  IF i >= Len(content) THEN <<>>
  ELSE LET chunk == Slice(content, i, i + WINDOW)
           chunk_lower == Lower(chunk)
       IN  IF \E k \in 1..Len(words) : Contains(chunk_lower, words[k])
             THEN chunk
             ELSE ScanFrom(content, words, i + STRIDE)

\* the snippet, and whether the "if not snippet" branch produced it
extract_snippet(content, question) ==
  LET found == ScanFrom(content, LongWords(question), 0)
  IN  IF found = <<>>
        THEN [snippet |-> Slice(content, 0, WINDOW), lastResort |-> TRUE]
        ELSE [snippet |-> found, lastResort |-> FALSE]

\* variant: no cap
Confidence_Uncapped(score) == 10 * score

\* min(0.9, best_match['score'] / 10)
Confidence(score) == Min(CONF_CAP, 10 * score)

FallbackAnswer(snippet, section) ==
  <<"Based on the TDS course materials:\n\n">> \o Strip(snippet)
    \o <<"...\n\nThis information comes from the ", section,
         " section of the course.">>

HTTPError(code, detail) == [status |-> code, detail |-> detail]

Answer(answer, confidence, sources, enhanced) ==
  [status |-> 200, answer |-> answer, confidence |-> confidence,
   sources |-> sources, enhanced |-> enhanced]

NoMatchResponse == Answer(NOMATCH_ANSWER, CONF_NOMATCH, <<>>, FALSE)

FallbackResponse(best, snippet) ==
  Answer(FallbackAnswer(snippet, best.section), Confidence(best.score),
         SourcesOf(best.section), FALSE)

\* the locals of search_knowledge_base when it returns
NoLocals ==
  [matched |-> FALSE, section |-> "", score |-> 0, sources |-> <<>>,
   snippet |-> <<>>, lastResort |-> FALSE]

MatchedLocals(best) ==
  [matched |-> TRUE, section |-> best.section, score |-> best.score,
   sources |-> SourcesOf(best.section), snippet |-> <<>>, lastResort |-> FALSE]

\* the code after the try block: snippet, confidence, the returned dict
Fallback(best, question) ==
  LET ex == extract_snippet(best.content, question)
  IN  [resp |-> FallbackResponse(best, ex.snippet),
       loc |-> [MatchedLocals(best) EXCEPT !.snippet = ex.snippet,
                                           !.lastResort = ex.lastResort]]

\* variant: the enhancement error reaches ask_question's handler
OnEnhancementError_Surfaced(best, question) ==
  [resp |-> HTTPError(500, "Error processing question: enhancement failed"),
   loc |-> MatchedLocals(best)]

\* except Exception: print, then fall through to the fallback
OnEnhancementError(best, question) == Fallback(best, question)

\* variant: the placeholder is taken for a token
EnhancementConfigured_NoSentinel(available, token) ==
  /\ available
  /\ token # NoAttr

\* AI_AVAILABLE and hasattr(settings, 'AIPIPE_TOKEN') and
\* settings.AIPIPE_TOKEN != "your_aipipe_token_here"
EnhancementConfigured(available, token) ==
  /\ available
  /\ token # NoAttr
  /\ token # PLACEHOLDER_TOKEN

\* ask_question building AnswerResponse from the dict search_knowledge_base
\* returned: a missing key raises KeyError, caught as a 500
FromAnswerData(d) ==
  IF {"answer", "confidence", "sources"} \subseteq d.keys
    THEN Answer(d.answer, d.confidence, d.sources,
                IF "enhanced" \in d.keys THEN d.enhanced ELSE FALSE)
    ELSE HTTPError(500, "Error processing question: KeyError")

\* The dicts AIResponder.generate_enhanced_response may return.
GatewayRecords(sources) ==
  LET full == {"answer", "confidence", "sources", "enhanced"}
      rec(keys, src, enh) ==
        [keys |-> keys, answer |-> <<"<rewritten answer>">>, confidence |-> 95,
         sources |-> src, enhanced |-> enh]
  IN  { rec(full, sources, TRUE),
        rec(full, << <<"AI generated">> >>, TRUE),
        rec(full \ {"enhanced"}, sources, FALSE),
        rec(full \ {"answer"}, sources, TRUE) }

\* ------------------------------------------------------------------ inputs

Rep(w, n) == [i \in 1..(n * Len(w)) |-> w[((i - 1) % Len(w)) + 1]]

Section(name, content) == [name |-> name, content |-> content]

\* tds_course_all.json as the loader finds it
JsonFile(sections) == [kind |-> "json", sections |-> sections]

CourseSections ==
  << Section("git", <<"G", "i", "t", " ", "r", "u", "n">>),
     Section("docker", <<"R", "u", "n", " ", "a", " ", "r", "u", "n">>),
     Section("misc", <<"r", "u", "n", "\n", "g", "i", "t">>) >>

DenseSections ==
  << Section("empty", <<>>),
     Section("seven", Rep(<<"a">>, 7)),
     Section("nine", Rep(<<"R", "U", "N">>, 9)),
     Section("many", Rep(<<"g", "i", "t">>, 11)) >>

DataSources ==
  { [kind |-> "missing", sections |-> <<>>],
    [kind |-> "invalid", sections |-> <<>>],
    [kind |-> "not sections", sections |-> CourseSections],
    JsonFile(<<>>),
    JsonFile(CourseSections),
    JsonFile(DenseSections) }

Questions ==
  { <<"r", "u", "n">>,
    <<"?">>,
    <<" ", "\t">>,
    <<"a", "a", "a", " ", "G", "I", "T">> }

\* corpora of the ranking specification: every order of up to MaxSections
\* distinct sections of the pool
RankPool ==
  CourseSections \o <<Section("seven", Rep(<<"a">>, 7)), Section("empty", <<>>)>>

Corpora(n) ==
  LET picks == {f \in [1..n -> 1..Len(RankPool)] :
                  \A a, b \in 1..n : a # b => f[a] # f[b]}
  IN  {[i \in 1..n |-> RankPool[f[i]]] : f \in picks}

RankSources == {JsonFile(c) : c \in UNION {Corpora(n) : n \in 0..MaxSections}}

Tokens == {NoAttr, PLACEHOLDER_TOKEN, "token-1"}

\* long contents: padding, one keyword, padding
Pad(n) == [i \in 1..n |-> IF i = 1 THEN " " ELSE "."]

Keyword(len, upper) ==
  [i \in 1..len |-> IF i = 1 THEN (IF upper THEN "A" ELSE "a")
                            ELSE (IF upper THEN "B" ELSE "b")]

KeywordLengths == {SHORT_WORD + 1, WINDOW - STRIDE + 1, WINDOW - STRIDE + 2}

KeywordOffsets == {STRIDE * k + d : k \in 0..MaxBlock, d \in {0, 1, STRIDE - 1}}

LongSources ==
  { JsonFile(<<Section("long", Pad(pre) \o Keyword(len, TRUE) \o Pad(post))>>) :
      pre \in KeywordOffsets, len \in KeywordLengths, post \in {0, STRIDE + 20} }

LongQuestions ==
  {Keyword(len, FALSE) : len \in KeywordLengths}
    \cup {<<"?", " ">> \o Keyword(SHORT_WORD + 1, TRUE)}

\* ------------------------------------------------------------------- state

VARIABLES
  started,          \* the startup event has run; the server accepts requests
  knowledge_base,   \* the global dict, as the sequence of its items
  AI_AVAILABLE,     \* whether the import of AIResponder succeeded
  AIPIPE_TOKEN,     \* settings.AIPIPE_TOKEN, or NoAttr
  loop,             \* the request whose handler holds the event loop, or 0
  pc,               \* per /ask request: idle, pending, gateway, done
  question,         \* per /ask request: request.question
  gw,               \* per /ask request: what became of its gateway call
  loc,              \* per /ask request: the locals of search_knowledge_base
  resp              \* per /ask request: the HTTP response

vars ==
  <<started, knowledge_base, AI_AVAILABLE, AIPIPE_TOKEN, loop, pc, question,
    gw, loc, resp>>

Req == 1..NumReq

NoResp == [status |-> 0]

Init ==
  /\ started = FALSE
  /\ knowledge_base = <<>>
  /\ AI_AVAILABLE \in BOOLEAN
  /\ AIPIPE_TOKEN \in Tokens
  /\ loop = 0
  /\ pc = [r \in Req |-> "idle"]
  /\ question = [r \in Req |-> <<>>]
  /\ gw = [r \in Req |-> "none"]
  /\ loc = [r \in Req |-> NoLocals]
  /\ resp = [r \in Req |-> NoResp]

\* ----------------------------------------------------------------- actions

\* what the loader leaves in knowledge_base
Loaded(file) == IF file.kind = "json" THEN file.sections ELSE <<>>

\* variant: the loader runs again on a later event
load_knowledge_base_Again(file) ==
  /\ started' = TRUE
  /\ knowledge_base' = Loaded(file)
  /\ UNCHANGED <<AI_AVAILABLE, AIPIPE_TOKEN, loop, pc, question, gw, loc,
                 resp>>

\* @app.on_event("startup"): runs once, before the server accepts requests
load_knowledge_base(file) ==
  /\ ~started
  /\ started' = TRUE
  /\ knowledge_base' = Loaded(file)
  /\ UNCHANGED <<AI_AVAILABLE, AIPIPE_TOKEN, loop, pc, question, gw, loc,
                 resp>>

\* a client posts /ask; the request waits for the event loop
Submit(r, q) ==
  /\ started
  /\ pc[r] = "idle"
  /\ pc' = [pc EXCEPT ![r] = "pending"]
  /\ question' = [question EXCEPT ![r] = q]
  /\ UNCHANGED <<started, knowledge_base, AI_AVAILABLE, AIPIPE_TOKEN, loop,
                 gw, loc, resp>>

Finish(r, response, locals, outcome) ==
  /\ pc' = [pc EXCEPT ![r] = "done"]
  /\ resp' = [resp EXCEPT ![r] = response]
  /\ loc' = [loc EXCEPT ![r] = locals]
  /\ gw' = [gw EXCEPT ![r] = outcome]
  /\ loop' = 0

\* ask_question runs on the event loop, up to its return or up to the
\* (synchronous) call into AIResponder
ask_question(r) ==
  /\ loop = 0
  /\ pc[r] = "pending"
  /\ LET ranked == relevant_sections(knowledge_base, question[r])
     IN  IF knowledge_base = <<>>
           THEN Finish(r, HTTPError(503, "Knowledge base not loaded"),
                       NoLocals, "none")
         ELSE IF Strip(question[r]) = <<>>
           THEN Finish(r, HTTPError(400, "Question cannot be empty"),
                       NoLocals, "none")
         ELSE IF ranked = <<>>
           THEN Finish(r, NoMatchResponse, NoLocals, "none")
         ELSE IF EnhancementConfigured(AI_AVAILABLE, AIPIPE_TOKEN)
           THEN /\ pc' = [pc EXCEPT ![r] = "gateway"]
                /\ loc' = [loc EXCEPT ![r] = MatchedLocals(ranked[1])]
                /\ gw' = [gw EXCEPT ![r] = "invoked"]
                /\ loop' = r
                /\ UNCHANGED resp
         ELSE LET out == Fallback(ranked[1], question[r])
              IN  Finish(r, out.resp, out.loc, "none")
  /\ UNCHANGED <<started, knowledge_base, AI_AVAILABLE, AIPIPE_TOKEN,
                 question>>

\* generate_enhanced_response returns d; search_knowledge_base returns it
gateway_returns(r, d) ==
  /\ pc[r] = "gateway"
  /\ d \in GatewayRecords(loc[r].sources)
  /\ Finish(r, FromAnswerData(d), loc[r], "returned")
  /\ UNCHANGED <<started, knowledge_base, AI_AVAILABLE, AIPIPE_TOKEN,
                 question>>

\* AIResponder() or generate_enhanced_response raises
gateway_raises(r) ==
  /\ pc[r] = "gateway"
  /\ LET ranked == relevant_sections(knowledge_base, question[r])
         out == OnEnhancementError(ranked[1], question[r])
     IN  Finish(r, out.resp, out.loc, "raised")
  /\ UNCHANGED <<started, knowledge_base, AI_AVAILABLE, AIPIPE_TOKEN,
                 question>>

\* a GET handler runs on the event loop, reads the globals and returns its
\* response to the client; it assigns nothing
Get(response) ==
  /\ started
  /\ loop = 0
  /\ response.status \in {200, 503}
  /\ UNCHANGED vars

SectionNames(kb) == [i \in 1..Len(kb) |-> kb[i].name]

root ==
  Get([status |-> 200, endpoint |-> "/",
       knowledge_base_sections |-> Len(knowledge_base),
       ai_enhanced |-> AI_AVAILABLE])

health_check ==
  Get([status |-> 200, endpoint |-> "/health",
       knowledge_base_loaded |-> Len(knowledge_base) > 0,
       sections_available |-> SectionNames(knowledge_base),
       ai_enhancement |-> AI_AVAILABLE])

get_sections ==
  Get(IF knowledge_base = <<>>
        THEN HTTPError(503, "Knowledge base not loaded")
        ELSE [status |-> 200, endpoint |-> "/sections",
              total_sections |-> Len(knowledge_base),
              sections |-> [i \in 1..Len(knowledge_base) |->
                              [name |-> knowledge_base[i].name,
                               content_length |-> Len(knowledge_base[i].content)]]])

test_ai_integration ==
  Get([status |-> 200, endpoint |-> "/test-ai",
       ai_available |-> AI_AVAILABLE,
       aipipe_configured |-> (AIPIPE_TOKEN # NoAttr /\ AIPIPE_TOKEN # PLACEHOLDER_TOKEN),
       knowledge_base_loaded |-> Len(knowledge_base) > 0,
       total_sections |-> Len(knowledge_base)])

Next ==
  \/ \E file \in DataSources : load_knowledge_base(file)
  \/ \E r \in Req, q \in Questions : Submit(r, q)
  \/ \E r \in Req : ask_question(r)
  \/ \E r \in Req : \E d \in GatewayRecords(loc[r].sources) : gateway_returns(r, d)
  \/ \E r \in Req : gateway_raises(r)
  \/ root
  \/ health_check
  \/ get_sections
  \/ test_ai_integration

Spec == Init /\ [][Next]_vars

\* The fallback path alone, on long contents: the import of AIResponder failed.
InitFallback == Init /\ ~AI_AVAILABLE /\ AIPIPE_TOKEN = NoAttr

NextFallback ==
  \/ \E file \in LongSources : load_knowledge_base(file)
  \/ \E q \in LongQuestions : Submit(1, q)
  \/ ask_question(1)

SpecFallback == InitFallback /\ [][NextFallback]_vars

\* The ranker alone, on every order of the pool's sections.
NextRank ==
  \/ \E file \in RankSources : load_knowledge_base(file)
  \/ \E q \in Questions : Submit(1, q)
  \/ ask_question(1)

SpecRank == InitFallback /\ [][NextRank]_vars

\* ------------------------------------------------------------- properties

Done(r) == pc[r] = "done"

\* the request matched a section and was answered by the fallback code
FellBack(r) == Done(r) /\ loc[r].matched /\ gw[r] \in {"none", "raised"}

\* the content of the section named name
ContentOf(name) ==
  LET k == CHOOSE k \in 1..Len(knowledge_base) : knowledge_base[k].name = name
  IN  knowledge_base[k].content

\* the largest number of pairwise non-overlapping occurrences of w in hay
NonOverlapping(hay, w) ==
  LET M == {i \in 1..(Len(hay) - Len(w) + 1) : MatchAt(hay, w, i)}
      Apart(S) == \A a, b \in S : a < b => b - a >= Len(w)
      sizes == {Cardinality(S) : S \in {T \in SUBSET M : Apart(T)}}
  IN  CHOOSE n \in sizes : \A m \in sizes : m <= n

RECURSIVE SumNonOverlapping(_, _, _)
SumNonOverlapping(hay, words, k) ==
  IF k > Len(words) THEN 0
  ELSE NonOverlapping(hay, words[k]) + SumNonOverlapping(hay, words, k + 1)

\* the score as the claim words it
StatedScore(q, content) == SumNonOverlapping(Lower(content), LongWords(q), 1)

\* what ask returns for q when the Gateway is disabled
DisabledAnswer(q) ==
  LET ranked == relevant_sections(knowledge_base, q)
  IN  Fallback(ranked[1], q).resp

\* C1: when the Enhancement Gateway raises, ask returns a record with
\* enhanced = false that equals the record the same call returns with the
\* Gateway disabled; the error is not surfaced.
C1_GatewayErrorFallsBack ==
  \A r \in Req :
    gw[r] = "raised" =>
      /\ Done(r)
      /\ resp[r].status = 200
      /\ resp[r].enhanced = FALSE
      /\ resp[r] = DisabledAnswer(question[r])

C1_Witness == \E r \in Req : gw[r] = "raised" /\ Done(r) /\ loc[r].score > 1

\* C2: the Gateway is invoked only for a matched request with the
\* availability flag true and a token present that is not the placeholder;
\* otherwise it is never invoked and the fallback path answers.
C2_GatewayOnlyWhenConfigured ==
  LET configured ==
        /\ AI_AVAILABLE = TRUE
        /\ AIPIPE_TOKEN # NoAttr
        /\ AIPIPE_TOKEN # "your_aipipe_token_here"
  IN  \A r \in Req :
        /\ gw[r] # "none" => configured /\ loc[r].matched
        /\ (Done(r) /\ loc[r].matched /\ ~configured) =>
             /\ gw[r] = "none"
             /\ resp[r] = DisabledAnswer(question[r])
             /\ resp[r].enhanced = FALSE

C2_Witness ==
  /\ AI_AVAILABLE
  /\ AIPIPE_TOKEN = "your_aipipe_token_here"
  /\ \E r \in Req : Done(r) /\ loc[r].matched /\ gw[r] = "none"
                    /\ resp[r].status = 200 /\ resp[r].sources # <<>>

\* C3: whenever ask reaches Matched the returned record's sources are the
\* one-element list naming the top-scoring section, and when the Gateway
\* call succeeds the returned record has enhanced = true and the sources
\* passed to the Gateway, whatever record the Gateway produced.
C3_SourcesNameBestSection ==
  \A r \in Req :
    (Done(r) /\ loc[r].matched /\ resp[r].status = 200) =>
      /\ resp[r].sources = << <<loc[r].section, " section">> >>
      /\ gw[r] = "returned" =>
           /\ resp[r].enhanced = TRUE
           /\ resp[r].sources = loc[r].sources

\* C4: the candidate list holds exactly the sections of score > 0, each with
\* its score, by score descending, ties in corpus order; the best match the
\* assembler uses is the earliest section among those of maximal score.
C4_RankedByScoreStable ==
  \A r \in Req :
    pc[r] # "idle" =>
      LET kb == knowledge_base
          c == relevant_sections(kb, question[r])
          sc == [k \in 1..Len(kb) |-> StatedScore(question[r], kb[k].content)]
          at == [i \in 1..Len(c) |->
                   CHOOSE k \in 1..Len(kb) : kb[k].name = c[i].section]
          top == {k \in 1..Len(kb) : sc[k] > 0 /\ \A j \in 1..Len(kb) : sc[j] <= sc[k]}
      IN  /\ \A i \in 1..Len(c) :
                /\ \E k \in 1..Len(kb) : kb[k].name = c[i].section
                /\ c[i].score = sc[at[i]]
                /\ c[i].score > 0
                /\ c[i].content = kb[at[i]].content
          /\ {at[i] : i \in 1..Len(c)} = {k \in 1..Len(kb) : sc[k] > 0}
          /\ \A i, j \in 1..Len(c) :
                i < j => \/ c[i].score > c[j].score
                         \/ c[i].score = c[j].score /\ at[i] < at[j]
          /\ (Done(r) /\ loc[r].matched) =>
                /\ loc[r].section = kb[MinOf(top)].name
                /\ loc[r].score = sc[MinOf(top)]
                /\ resp[r].sources = << <<kb[MinOf(top)].name, " section">> >>

\* a tie at the top behind a section of lower score, resolved in corpus order
C4_Witness ==
  /\ Len(knowledge_base) = 2
  /\ \E r \in Req :
       /\ Done(r) /\ loc[r].matched
       /\ StatedScore(question[r], knowledge_base[1].content)
            = StatedScore(question[r], knowledge_base[2].content)
       /\ loc[r].section = knowledge_base[1].name

\* a section of higher score overtaking an earlier one
C4_Reordered ==
  /\ Len(knowledge_base) = 2
  /\ \E r \in Req :
       /\ Done(r) /\ loc[r].matched
       /\ loc[r].section = knowledge_base[2].name
       /\ StatedScore(question[r], knowledge_base[1].content) > 0

NoSectionScores(q) ==
  \A k \in 1..Len(knowledge_base) : Score(q, knowledge_base[k].content) = 0

FixedNoMatch ==
  [status |-> 200, answer |-> NOMATCH_ANSWER, confidence |-> 10,
   sources |-> <<>>, enhanced |-> FALSE]

\* C5 as stated: whenever no section scores above zero, the empty Corpus
\* Store included, ask returns exactly the fixed NoMatch response.
C5_NoMatchWheneverNoScore ==
  \A r \in Req :
    (Done(r) /\ NoSectionScores(question[r])) => resp[r] = FixedNoMatch

\* C5 amended: with a non-empty Corpus Store and a question that is not
\* blank, ask returns exactly the fixed NoMatch response whenever no section
\* scores above zero; with an empty Corpus Store it fails with 503 for any
\* question, and a blank question fails with 400.
C5_NoMatchOnLoadedCorpus ==
  \A r \in Req :
    Done(r) =>
      /\ knowledge_base = <<>> =>
           resp[r] = [status |-> 503, detail |-> "Knowledge base not loaded"]
      /\ (knowledge_base # <<>> /\ Strip(question[r]) = <<>>) =>
           resp[r] = [status |-> 400, detail |-> "Question cannot be empty"]
      /\ (knowledge_base # <<>> /\ Strip(question[r]) # <<>>
            /\ NoSectionScores(question[r])) =>
           resp[r] = FixedNoMatch
      /\ resp[r] = FixedNoMatch => NoSectionScores(question[r])

C5_Witness ==
  \E r \in Req :
    /\ Done(r)
    /\ knowledge_base # <<>>
    /\ question[r] = <<"?">>
    /\ resp[r] = FixedNoMatch

\* the offsets the claim names: multiples of 100 inside the content whose
\* lowercased 500-character window holds a question word longer than 2
MatchingOffsets(content, q) ==
  LET words == LongWords(q)
  IN  {i \in 0..(Len(content) - 1) :
         /\ i % 100 = 0
         /\ \E k \in 1..Len(words) :
              Contains(Lower(Slice(content, i, i + 500)), words[k])}

\* C6: the snippet is content[i : i+500] for the smallest multiple i of 100
\* inside the content whose lowercased window holds a question word longer
\* than 2, the first 500 characters when there is none, and at most 500
\* characters long.
C6_SnippetIsFirstMatchingWindow ==
  \A r \in Req :
    FellBack(r) =>
      LET content == ContentOf(loc[r].section)
          offsets == MatchingOffsets(content, question[r])
      IN  /\ Len(loc[r].snippet) <= 500
          /\ loc[r].snippet =
               IF offsets = {} THEN Slice(content, 0, 500)
               ELSE Slice(content, MinOf(offsets), MinOf(offsets) + 500)
          /\ loc[r].lastResort <=> offsets = {}
          /\ resp[r].answer = FallbackAnswer(loc[r].snippet, loc[r].section)

\* the first matching window is not the first window
C6_Witness ==
  \E r \in Req :
    /\ FellBack(r)
    /\ ~loc[r].lastResort
    /\ loc[r].snippet # Slice(ContentOf(loc[r].section), 0, 500)
    /\ Len(loc[r].snippet) = 500

\* no window matches: the first 500 characters
C6_LastResort ==
  \E r \in Req : FellBack(r) /\ loc[r].lastResort /\ Len(loc[r].snippet) = 500

\* C7: the confidence of a fallback answer is min(0.9, score / 10) of the
\* top score: never above 0.9, non-decreasing in the score, and above 0
\* because the score it is computed from is above 0.
C7_ConfidenceCappedMonotone ==
  \A r \in Req :
    FellBack(r) =>
      /\ loc[r].score > 0
      /\ resp[r].confidence =
           (IF 10 * loc[r].score <= 90 THEN 10 * loc[r].score ELSE 90)
      /\ resp[r].confidence <= 90
      /\ resp[r].confidence > 0
      /\ \A r2 \in Req :
           (FellBack(r2) /\ loc[r].score <= loc[r2].score) =>
             resp[r].confidence <= resp[r2].confidence

\* the cap is reached from below and from above
C7_Witness ==
  \E r, r2 \in Req :
    /\ FellBack(r) /\ FellBack(r2)
    /\ loc[r].score = 9 /\ loc[r2].score > 10
    /\ resp[r].confidence = 90 /\ resp[r2].confidence = 90

\* C8: while one request is inside the Gateway's external call, every other
\* submitted request still proceeds: its handler can run, whether or not
\* that call ever returns.
C8_OtherRequestsProceed ==
  \A r, r2 \in Req :
    (pc[r] = "gateway" /\ pc[r2] = "pending") => ENABLED ask_question(r2)

\* C9: the Corpus Store is written only by the startup loader, once, before
\* any request is accepted; no later step changes it.
C9_CorpusWrittenOnceAtStartup ==
  [][ /\ started => knowledge_base' = knowledge_base
      /\ knowledge_base' # knowledge_base => ~started /\ started'
      /\ pc' # pc => started ]_vars

C9_Witness ==
  /\ started
  /\ knowledge_base # <<>>
  /\ \E r, r2 \in Req : pc[r] = "gateway" /\ Done(r2)

\* C10: on the fallback path, when every question word longer than 2 is at
\* most 401 characters long, some scanned window matches: the last-resort
\* branch is not taken and the snippet holds, case-insensitively, a
\* question word longer than 2.
C10_BoundedWordsAlwaysMatch ==
  \A r \in Req :
    FellBack(r) =>
      LET words == LongWords(question[r])
      IN  (\A k \in 1..Len(words) : Len(words[k]) <= 401) =>
            /\ ~loc[r].lastResort
            /\ \E k \in 1..Len(words) : Contains(Lower(loc[r].snippet), words[k])

\* a word of exactly 401 characters that ends where its window ends
C10_Witness ==
  \E r \in Req :
    /\ FellBack(r)
    /\ Len(question[r]) = 401
    /\ \E i \in 1..Len(loc[r].snippet) :
         /\ MatchAt(Lower(loc[r].snippet), Lower(question[r]), i)
         /\ i + 400 = 500

\* a word of 402 characters that no window holds: the snippet holds no
\* question word
C10_LongWordEscapes ==
  \E r \in Req :
    /\ FellBack(r)
    /\ loc[r].lastResort
    /\ \A k \in 1..Len(LongWords(question[r])) :
         ~Contains(Lower(loc[r].snippet), LongWords(question[r])[k])

==========================================================================
